---- MODULE Spec2Model ----
(***************************************************************************)
(* Model of the Change Case command (change-case.tsx): the pinned and the  *)
(* recent list, kept as React state of the Command component and written   *)
(* through to a key-value Cache by passive effects.                        *)
(*                                                                         *)
(* One run of the command is: Command is called (Mount), the passive       *)
(* effects of the commit are flushed in declaration order, queued state    *)
(* updates are applied by a re-render whose effects are flushed again, and *)
(* then the list is idle and the user picks an action of a displayed item. *)
(* A user action is handled only when no render or effect is pending, so   *)
(* a handler always reads the lists of the latest render.  Copy and Paste  *)
(* close the window; the command is then launched again and reads the      *)
(* lists back from the cache.                                              *)
(*                                                                         *)
(* Command called with a case in its launch context converts the content   *)
(* at once and returns before its first hook.  The content is what         *)
(* readContent gives for the clipboard, the selection and the preferred    *)
(* source of the run; a text is the sequence of its characters.            *)
(*                                                                         *)
(* pc is "commit" when a render is committed and its effects are still to  *)
(* be flushed, and "flush" from the first effect of the flush on.  The     *)
(* effects of one flush run in one task of the event loop, so the command  *)
(* is not unloaded between two of them.                                    *)
(***************************************************************************)
EXTENDS Integers, Sequences, FiniteSets, TLC

\* Number of case identifiers (keys of `functions`) in the model.
NumCases == 5

\* A cache that this command did not write holds lists of at most MaxStored
\* elements, over the identifiers 1..MaxStored.
MaxStored == 1

\* Longest text the clipboard or the selection holds.
MaxText == 3

\* The end index of slice(0, 4): the capacity of the recent list.
SliceEnd == 4

Cases == 1..NumCases

Keys == {"pinned", "recent"}

VARIABLES
  cache,        \* the Cache: key -> [present, text]
  pinned,       \* useState pinned of the latest render
  recent,       \* useState recent of the latest render
  enabled,      \* the case identifiers whose preference is true
  pc,           \* "start", "commit", "flush", "idle", "closed", "crashed"
  effects,      \* passive effects of the latest commit still to run
  nextPinned,   \* queued setPinned update: [set, val]
  nextRecent,   \* queued setRecent update: [set, val]
  closing,      \* closeMainWindow() was called
  loaded,       \* history: the cache as it was when the run started
  last,         \* history: the action whose handler has just run
  env,          \* the clipboard, the selection and preferences["source"]
  launch,       \* props.launchContext?.case of this run, 0 for none
  clipboard,    \* useState clipboard of the latest render
  reading,      \* the promise of readContent in the content effect is pending
  out,          \* what the step just taken gave the user: [kind, text]
  toast,        \* the failure toast is shown
  touched       \* history: the cache operations of this run

vars == <<cache, pinned, recent, enabled, pc, effects, nextPinned, nextRecent,
          closing, loaded, last, env, launch, clipboard, reading, out, toast,
          touched>>

----------------------------------------------------------------------------
(* Sequences *)

Range(s) == {s[i] : i \in 1..Len(s)}

NoDuplicates(s) == \A i, j \in 1..Len(s) : s[i] = s[j] => i = j

Min(a, b) == IF a < b THEN a ELSE b

\* Array.prototype.includes
Includes(s, c) == \E i \in 1..Len(s) : s[i] = c

\* s.filter((c) => c !== x)
FilterNot(s, x) == SelectSeq(s, LAMBDA c : c # x)

\* s.slice(0, end)
Slice0(s, end) == SubSeq(s, 1, Min(end, Len(s)))

----------------------------------------------------------------------------
(* JSON text of an array of strings, as a sequence of tokens.  A case      *)
(* identifier holds no character that JSON escapes, so each one is a       *)
(* single string token.                                                    *)

LBracket == [t |-> "[", v |-> 0]
RBracket == [t |-> "]", v |-> 0]
Comma == [t |-> ",", v |-> 0]
Str(c) == [t |-> "str", v |-> c]

RECURSIVE JoinComma(_)
JoinComma(list) ==
  IF list = <<>> THEN <<>>
  ELSE IF Len(list) = 1 THEN <<Str(list[1])>>
  ELSE <<Str(list[1]), Comma>> \o JoinComma(Tail(list))

\* Mutant: the elements are written last to first.
JSONstringifyReversed(list) ==
  <<LBracket>>
    \o JoinComma(IF list = <<>> THEN <<>>
                 ELSE [i \in 1..Len(list) |-> list[Len(list) + 1 - i]])
    \o <<RBracket>>

\* JSON.stringify of a CaseType[]
JSONstringify(list) == <<LBracket>> \o JoinComma(list) \o <<RBracket>>

\* The elements of the text after "[": str ("," str)* "]", read left to right.
RECURSIVE ParseElements(_, _)
ParseElements(text, acc) ==
  IF Len(text) < 2 \/ text[1].t # "str" THEN [ok |-> FALSE, value |-> <<>>]
  ELSE IF text[2] = RBracket
    THEN [ok |-> Len(text) = 2, value |-> Append(acc, text[1].v)]
  ELSE IF text[2] = Comma
    THEN ParseElements(SubSeq(text, 3, Len(text)), Append(acc, text[1].v))
  ELSE [ok |-> FALSE, value |-> <<>>]

\* JSON.parse of an array text; ok is FALSE where JSON.parse throws SyntaxError.
JSONparse(text) ==
  IF text = <<>> \/ text[1] # LBracket THEN [ok |-> FALSE, value |-> <<>>]
  ELSE IF Len(text) = 2 /\ text[2] = RBracket THEN [ok |-> TRUE, value |-> <<>>]
  ELSE ParseElements(Tail(text), <<>>)

----------------------------------------------------------------------------
(* The cache *)

Absent == [present |-> FALSE, text |-> <<>>]
Present(text) == [present |-> TRUE, text |-> text]

\* cache.get(key) is undefined or "": the falsy values of `pinned ? ... : []`
Falsy(entry) == ~entry.present \/ entry.text = <<>>

getCases(entry) ==
  IF Falsy(entry) THEN [ok |-> TRUE, value |-> <<>>] ELSE JSONparse(entry.text)

\* cache.get("pinned") ? JSON.parse(...) : []
getPinnedCases == getCases(cache["pinned"])

getRecentCases == getCases(cache["recent"])

setCases(key, list) == [cache EXCEPT ![key] = Present(JSONstringify(list))]

setPinnedCases(list) == setCases("pinned", list)

setRecentCases(list) == setCases("recent", list)

----------------------------------------------------------------------------
(* Text.  A string is the sequence of its characters; the texts of the     *)
(* model are written with one letter and the line break.                   *)

Newline == "\n"

Chars == {"a", Newline}

Texts == UNION {[1..k -> Chars] : k \in 0..MaxText}

Upper(ch) == IF ch = "a" THEN "A" ELSE ch

\* Upper Case: every letter in upper case.
RECURSIVE upperCase(_)
upperCase(text) ==
  IF text = <<>> THEN <<>> ELSE <<Upper(Head(text))>> \o upperCase(Tail(text))

\* Upper First: the first character in upper case.
upperCaseFirst(text) ==
  IF text = <<>> THEN <<>> ELSE <<Upper(Head(text))>> \o Tail(text)

\* functions[case](text): the odd identifiers are Upper Case, the even ones
\* Upper First.
functions(case, text) ==
  IF case % 2 = 1 THEN upperCase(text) ELSE upperCaseFirst(text)

\* input.split("\n")
RECURSIVE split(_)
split(input) ==
  IF ~Includes(input, Newline) THEN <<input>>
  ELSE LET i == CHOOSE k \in 1..Len(input) :
                  input[k] = Newline /\ \A j \in 1..(k - 1) : input[j] # Newline
       IN  <<SubSeq(input, 1, i - 1)>> \o split(SubSeq(input, i + 1, Len(input)))

\* modified.join("\n")
RECURSIVE join(_)
join(modified) ==
  IF modified = <<>> THEN <<>>
  ELSE IF Len(modified) = 1 THEN modified[1]
  ELSE modified[1] \o <<Newline>> \o join(Tail(modified))

\* for (const line of input.split("\n")) modified.push(case_(line))
RECURSIVE pushEach(_, _)
pushEach(lines, case) ==
  IF lines = <<>> THEN <<>>
  ELSE <<functions(case, Head(lines))>> \o pushEach(Tail(lines), case)

modifyCasesWrapper(input, case) == join(pushEach(split(input), case))

----------------------------------------------------------------------------
(* The content to convert *)

Sources == {"clipboard", "selected"}

\* What getSelectedText() gives: a text, or an exception (ok is FALSE).
Selections == {[ok |-> FALSE, text |-> <<>>]} \cup [ok : {TRUE}, text : Texts]

Environments == [clipboard : Texts, selected : Selections, source : Sources]

\* A clipboard of two lines, nothing selected, the clipboard preferred.
DefaultEnv ==
  [clipboard |-> <<"a", Newline, "a">>, selected |-> [ok |-> TRUE, text |-> <<>>],
   source |-> "clipboard"]

\* try { return await getSelectedText(); } catch (error) { return ""; }
getSelection(e) == IF e.selected.ok THEN e.selected.text ELSE <<>>

\* throw new NoTextError()
NoText == [ok |-> FALSE, text |-> <<>>]

Content(text) == [ok |-> TRUE, text |-> text]

\* Mutant: the selection is tried first, whichever source is preferred.
readContentSelectedFirst(e) ==
  IF getSelection(e) # <<>> THEN Content(getSelection(e))
  ELSE IF e.clipboard # <<>> THEN Content(e.clipboard)
  ELSE NoText

readContent(e) ==
  LET selected == getSelection(e)
  IN  IF e.source = "clipboard"
        THEN IF e.clipboard # <<>> THEN Content(e.clipboard)
             ELSE IF selected # <<>> THEN Content(selected)
             ELSE NoText
        ELSE IF selected # <<>> THEN Content(selected)
             ELSE IF e.clipboard # <<>> THEN Content(e.clipboard)
             ELSE NoText

----------------------------------------------------------------------------
(* Render *)

NoUpdate == [set |-> FALSE, val |-> <<>>]
Update(list) == [set |-> TRUE, val |-> list]

NoAction == [op |-> "none", case |-> 0, pinned |-> FALSE, recent |-> FALSE]

NotLoaded == [run |-> FALSE, pinned |-> Absent, recent |-> Absent]

NoOutput == [kind |-> "none", text |-> <<>>]

\* props.launchContext?.case: none (0), or a case identifier.
LaunchContexts == {0} \cup Cases

\* modified={modifyCasesWrapper(clipboard, functions[key])}
Modified(case) == modifyCasesWrapper(clipboard, case)

\* preferences[key.replace(/ +/g, "")] for each key: every case is enabled,
\* or all but the last one.
EnabledChoices == {Cases, Cases \ {NumCases}}

PinnedSection == Range(pinned)

RecentSection == Range(recent)

\* Mutant: All Cases does not leave out the pinned identifiers.
AllCasesSectionWithPinned == {c \in Cases : c \in enabled /\ ~Includes(recent, c)}

\* Mutant: All Cases does not leave out the recent identifiers.
AllCasesSectionWithRecent == {c \in Cases : c \in enabled /\ ~Includes(pinned, c)}

AllCasesSection ==
  {c \in Cases : c \in enabled /\ ~Includes(recent, c) /\ ~Includes(pinned, c)}

\* The CaseItem elements of the latest render, with their props.
Items ==
  {[case |-> c, pinned |-> TRUE, recent |-> FALSE] : c \in PinnedSection}
  \cup {[case |-> c, pinned |-> FALSE, recent |-> TRUE] : c \in RecentSection}
  \cup {[case |-> c, pinned |-> FALSE, recent |-> FALSE] : c \in AllCasesSection}

\* Mutant: the effects that save are declared before the one that loads.
MountEffectsSaveFirst == <<"savePinned", "saveRecent", "load", "content">>

\* The effects of the first commit, in the order of their useEffect calls.
MountEffects == <<"load", "savePinned", "saveRecent", "content">>

\* Mutant: the effect that saves the recent list does not depend on it.
UpdateEffectsPinnedOnly(p, r) == IF p.set THEN <<"savePinned">> ELSE <<>>

\* The effects of a later commit: those whose dependency changed.  Every
\* setPinned and setRecent call of the program passes a new array, and
\* preferredSource is the same in every render of a run.
UpdateEffects(p, r) ==
  (IF p.set THEN <<"savePinned">> ELSE <<>>) \o (IF r.set THEN <<"saveRecent">> ELSE <<>>)

\* Mutant: a render without an update of a list starts from the empty list.
RenderedReset(update, list) == IF update.set THEN update.val ELSE <<>>

\* The state after an update, or the one of the latest render.
Rendered(update, list) == IF update.set THEN update.val ELSE list

----------------------------------------------------------------------------
(* State after the module is loaded: the cache is the one of an earlier    *)
(* run, or of none; Command has not been called.                           *)

InitRun ==
  /\ pinned = <<>>
  /\ recent = <<>>
  /\ enabled = Cases
  /\ pc = "start"
  /\ effects = <<>>
  /\ nextPinned = NoUpdate
  /\ nextRecent = NoUpdate
  /\ closing = FALSE
  /\ loaded = NotLoaded
  /\ last = NoAction
  /\ launch = 0
  /\ clipboard = <<>>
  /\ reading = FALSE
  /\ out = NoOutput
  /\ toast = FALSE
  /\ touched = {}

\* The first launch: nothing is stored.
Init ==
  /\ cache = [k \in Keys |-> Absent]
  /\ env = DefaultEnv
  /\ InitRun

\* The lists of at most n elements over ids.
ListsUpTo(ids, n) == UNION {[1..k -> ids] : k \in 0..n}

\* The texts a write that was cut short leaves: the proper prefixes of an
\* array text, the empty one among them.
Truncations(text) == {SubSeq(text, 1, k) : k \in 0..(Len(text) - 1)}

StoredTexts ==
  LET full == {JSONstringify(l) : l \in ListsUpTo(1..Min(MaxStored, NumCases), MaxStored)}
  IN  full \cup UNION {Truncations(t) : t \in full}

\* A launch with a cache that anything may have written.
InitStored ==
  /\ cache \in [Keys -> {Absent} \cup {Present(t) : t \in StoredTexts}]
  /\ env = DefaultEnv
  /\ InitRun

\* The first launch, with any clipboard, selection and preferred source.
InitContent ==
  /\ cache = [k \in Keys |-> Absent]
  /\ env \in Environments
  /\ InitRun

----------------------------------------------------------------------------
(* Command is called for a new run: useState gives the empty lists, and    *)
(* the first commit schedules every effect.  Every call of Command reads   *)
(* the preferences; they are the same in a run, and are first used by the  *)
(* list that waits for the user, where the model draws them.               *)

Mount ==
  /\ pc \in {"start", "closed", "crashed"}
  /\ pinned' = <<>>
  /\ recent' = <<>>
  /\ enabled' = Cases
  /\ pc' = "commit"
  /\ effects' = MountEffects
  /\ nextPinned' = NoUpdate
  /\ nextRecent' = NoUpdate
  /\ closing' = FALSE
  /\ loaded' = [run |-> TRUE, pinned |-> cache["pinned"], recent |-> cache["recent"]]
  /\ last' = NoAction
  /\ clipboard' = <<>>
  /\ reading' = FALSE
  /\ out' = NoOutput
  /\ toast' = FALSE
  /\ touched' = {}
  /\ UNCHANGED <<cache, env>>

\* if (immediatelyConvertToCase) { (async () => { ... })(); return; }
\* Command returns before its first hook: there is no state and no effect.
\* The content is read and converted, the result copied and announced, and
\* the command left; a NoTextError of readContent rejects the promise of the
\* async function, which nothing handles.
DirectLaunch(ctx) ==
  /\ pc \in {"start", "closed", "crashed"}
  /\ LET content == readContent(env)
     IN  out' = IF content.ok
                  THEN [kind |-> "copy", text |-> functions(ctx, content.text)]
                  ELSE [kind |-> "rejected", text |-> <<>>]
  /\ pc' = "closed"
  /\ pinned' = <<>>
  /\ recent' = <<>>
  /\ effects' = <<>>
  /\ nextPinned' = NoUpdate
  /\ nextRecent' = NoUpdate
  /\ closing' = FALSE
  /\ loaded' = [run |-> TRUE, pinned |-> cache["pinned"], recent |-> cache["recent"]]
  /\ last' = [op |-> "launch", case |-> ctx, pinned |-> FALSE, recent |-> FALSE]
  /\ clipboard' = <<>>
  /\ reading' = FALSE
  /\ toast' = FALSE
  /\ touched' = {}
  /\ enabled' = Cases
  /\ UNCHANGED <<cache, env>>

\* Mutant: the launch context is not looked at.
LaunchBranchNever(ctx) == FALSE

\* if (immediatelyConvertToCase)
LaunchBranch(ctx) == ctx # 0

\* export default function Command(props)
Command(ctx) ==
  /\ launch' = ctx
  /\ IF LaunchBranch(ctx) THEN DirectLaunch(ctx) ELSE Mount

\* The command is gone: its state is, too.  The preferences are read again
\* by the next call of Command.
Unloaded(to) ==
  /\ pc' = to
  /\ pinned' = <<>>
  /\ recent' = <<>>
  /\ effects' = <<>>
  /\ nextPinned' = NoUpdate
  /\ nextRecent' = NoUpdate
  /\ closing' = FALSE
  /\ loaded' = NotLoaded
  /\ last' = NoAction
  /\ launch' = 0
  /\ clipboard' = <<>>
  /\ reading' = FALSE
  /\ out' = NoOutput
  /\ toast' = FALSE
  /\ touched' = {}
  /\ enabled' = Cases
  /\ UNCHANGED <<cache, env>>

\* useEffect(() => { setPinned(getPinnedCases()); setRecent(getRecentCases()); ... }, [])
\* A SyntaxError of JSON.parse is thrown out of the effect and ends the
\* command.  Otherwise the two updates are queued: they are rendered when
\* the effects of this commit have run.
LoadEffect ==
  /\ pc \in {"commit", "flush"}
  /\ effects # <<>>
  /\ Head(effects) = "load"
  /\ IF getPinnedCases.ok /\ getRecentCases.ok
       THEN /\ nextPinned' = Update(getPinnedCases.value)
            /\ nextRecent' = Update(getRecentCases.value)
            /\ effects' = Tail(effects)
            /\ pc' = "flush"
            /\ last' = NoAction
            /\ out' = NoOutput
            /\ touched' = touched \cup {"get"}
            /\ UNCHANGED <<cache, pinned, recent, enabled, closing, loaded, env,
                           launch, clipboard, reading, toast>>
       ELSE Unloaded("crashed")

\* useEffect(() => { setPinnedCases(pinned); }, [pinned])
SavePinnedEffect ==
  /\ pc \in {"commit", "flush"}
  /\ effects # <<>>
  /\ Head(effects) = "savePinned"
  /\ cache' = setPinnedCases(pinned)
  /\ effects' = Tail(effects)
  /\ pc' = "flush"
  /\ last' = NoAction
  /\ out' = NoOutput
  /\ touched' = touched \cup {"set"}
  /\ UNCHANGED <<pinned, recent, enabled, nextPinned, nextRecent, closing, loaded,
                 env, launch, clipboard, reading, toast>>

\* useEffect(() => { setRecentCases(recent); }, [recent])
SaveRecentEffect ==
  /\ pc \in {"commit", "flush"}
  /\ effects # <<>>
  /\ Head(effects) = "saveRecent"
  /\ cache' = setRecentCases(recent)
  /\ effects' = Tail(effects)
  /\ pc' = "flush"
  /\ last' = NoAction
  /\ out' = NoOutput
  /\ touched' = touched \cup {"set"}
  /\ UNCHANGED <<pinned, recent, enabled, nextPinned, nextRecent, closing, loaded,
                 env, launch, clipboard, reading, toast>>

\* useEffect(() => { readContent(preferredSource).then(...).catch(...); },
\* [preferredSource]): the content is asked for.
ContentEffect ==
  /\ pc \in {"commit", "flush"}
  /\ effects # <<>>
  /\ Head(effects) = "content"
  /\ reading' = TRUE
  /\ effects' = Tail(effects)
  /\ pc' = "flush"
  /\ last' = NoAction
  /\ out' = NoOutput
  /\ UNCHANGED <<cache, pinned, recent, enabled, nextPinned, nextRecent, closing,
                 loaded, env, launch, clipboard, toast, touched>>

\* The promise of readContent is settled, in a task of its own, after the
\* renders of the lists that were loaded: .then((c) => setClipboard(c)), or
\* .catch with the failure toast for a NoTextError.  The render of the new
\* clipboard has no effect to run.
ContentResolved ==
  /\ reading
  /\ pc \in {"commit", "flush"}
  /\ effects = <<>>
  /\ ~nextPinned.set
  /\ ~nextRecent.set
  /\ LET content == readContent(env)
     IN  IF content.ok
           THEN /\ clipboard' = content.text
                /\ out' = NoOutput
                /\ UNCHANGED toast
           ELSE /\ toast' = TRUE
                /\ out' = [kind |-> "toast", text |-> <<>>]
                /\ UNCHANGED clipboard
  /\ reading' = FALSE
  /\ last' = NoAction
  /\ UNCHANGED <<cache, pinned, recent, enabled, pc, effects, nextPinned,
                 nextRecent, closing, loaded, env, launch, touched>>

\* The effects are flushed and state updates are queued: Command is called
\* again with the new lists, and the commit schedules the effects whose
\* dependency changed.
Rerender ==
  /\ pc = "flush"
  /\ effects = <<>>
  /\ nextPinned.set \/ nextRecent.set
  /\ pinned' = Rendered(nextPinned, pinned)
  /\ recent' = Rendered(nextRecent, recent)
  /\ effects' = UpdateEffects(nextPinned, nextRecent)
  /\ nextPinned' = NoUpdate
  /\ nextRecent' = NoUpdate
  /\ pc' = "commit"
  /\ last' = NoAction
  /\ out' = NoOutput
  /\ UNCHANGED <<cache, enabled, closing, loaded, env, launch, clipboard, reading,
                 toast, touched>>

\* Nothing is pending: the list waits for the user, or, after
\* closeMainWindow(), the window is closed and the command unloaded.  The
\* user acts on the list that shows the content that was read.
Settle ==
  /\ pc \in {"commit", "flush"}
  /\ effects = <<>>
  /\ ~nextPinned.set
  /\ ~nextRecent.set
  /\ ~reading
  /\ IF closing
       THEN Unloaded("closed")
       ELSE /\ pc' = "idle"
            /\ enabled' \in IF loaded.run THEN EnabledChoices ELSE {enabled}
            /\ last' = NoAction
            /\ out' = NoOutput
            /\ UNCHANGED <<cache, pinned, recent, effects, nextPinned,
                           nextRecent, closing, loaded, env, launch, clipboard,
                           reading, toast, touched>>

----------------------------------------------------------------------------
(* The actions of a displayed CaseItem.  A handler reads `pinned` and      *)
(* `recent` of the render that created it; React renders the updates it    *)
(* queued when it returns, so an action is the handler with that render,   *)
(* and the effects of the render's commit are left to run.                 *)

Handled(op, item) ==
  [op |-> op, case |-> item.case, pinned |-> item.pinned, recent |-> item.recent]

\* The render after a handler that queued updates p and r.  Copy and Paste
\* hand props.modified to the clipboard or to the frontmost application.
Dispatch(p, r, closes, op, item) ==
  /\ pc = "idle"
  /\ pinned' = Rendered(p, pinned)
  /\ recent' = Rendered(r, recent)
  /\ effects' = UpdateEffects(p, r)
  /\ closing' = closes
  /\ pc' = "commit"
  /\ loaded' = NotLoaded
  /\ last' = Handled(op, item)
  /\ out' = IF op \in {"copy", "paste"}
              THEN [kind |-> op, text |-> Modified(item.case)]
              ELSE NoOutput
  /\ UNCHANGED <<cache, enabled, nextPinned, nextRecent, env, launch, clipboard,
                 reading, toast, touched>>

\* Mutant: the new list is not cut.
UsedRecentUncut(case, list) == <<case>> \o FilterNot(list, case)

\* Mutant: the identifier is not taken out of the list before it is prepended.
UsedRecentUnfiltered(case, list) == Slice0(<<case>> \o list, SliceEnd)

\* [props.case, ...recent.filter((c) => c !== props.case)].slice(0, 4)
UsedRecent(case, list) == Slice0(<<case>> \o FilterNot(list, case), SliceEnd)

\* Mutant: props.pinned is not looked at.
UseUpdateAlways(item) == Update(UsedRecent(item.case, recent))

\* if (!props.pinned) { setRecent(...) }
UseUpdate(item) == IF ~item.pinned THEN Update(UsedRecent(item.case, recent)) ELSE NoUpdate

\* Mutant: the identifier is appended.
PinnedWithAppended(case, list) == Append(list, case)

\* [props.case, ...pinned]
PinnedWith(case, list) == <<case>> \o list

\* Mutant: Pin leaves the recent list alone.
PinRecentUpdateNone(item) == NoUpdate

\* if (props.recent) { setRecent(recent.filter((c) => c !== props.case)) }
PinRecentUpdate(item) ==
  IF item.recent THEN Update(FilterNot(recent, item.case)) ELSE NoUpdate

\* {!props.pinned ? <Action title="Pin Case" .../> : ...}
PinOffered(item) == ~item.pinned

CopyToClipboard(item) == Dispatch(NoUpdate, UseUpdate(item), TRUE, "copy", item)

\* The action is rendered once getFrontmostApplication() has resolved, which
\* does not depend on the lists: it is offered whenever the list is idle.
PasteToActiveApp(item) == Dispatch(NoUpdate, UseUpdate(item), TRUE, "paste", item)

PinCase(item) ==
  /\ PinOffered(item)
  /\ Dispatch(Update(PinnedWith(item.case, pinned)), PinRecentUpdate(item), FALSE,
              "pin", item)

\* Mutant: the first identifier is taken out, whichever it is.
UnpinnedFirst(case, list) == IF list = <<>> THEN <<>> ELSE Tail(list)

\* pinned.filter((c) => c !== props.case)
Unpinned(case, list) == FilterNot(list, case)

RemovePinnedCase(item) ==
  /\ item.pinned
  /\ Dispatch(Update(Unpinned(item.case, pinned)), NoUpdate, FALSE, "removePinned", item)

ClearPinnedCases(item) ==
  /\ item.pinned
  /\ Dispatch(Update(<<>>), NoUpdate, FALSE, "clearPinned", item)

RemoveRecentCase(item) ==
  /\ item.recent
  /\ Dispatch(NoUpdate, Update(FilterNot(recent, item.case)), FALSE, "removeRecent", item)

ClearRecentCases(item) ==
  /\ item.recent
  /\ Dispatch(NoUpdate, Update(<<>>), FALSE, "clearRecent", item)

\* The window is closed, or the command unloaded, while it is running,
\* between two tasks: what was not yet written is lost.
Terminate ==
  /\ pc \in {"commit", "idle"} \/ (pc = "flush" /\ effects = <<>>)
  /\ Unloaded("closed")

Next ==
  \/ \E ctx \in LaunchContexts : Command(ctx)
  \/ LoadEffect
  \/ SavePinnedEffect
  \/ SaveRecentEffect
  \/ ContentEffect
  \/ ContentResolved
  \/ Rerender
  \/ Settle
  \/ \E item \in Items : CopyToClipboard(item)
  \/ \E item \in Items : PasteToActiveApp(item)
  \/ \E item \in Items : PinCase(item)
  \/ \E item \in Items : RemovePinnedCase(item)
  \/ \E item \in Items : ClearPinnedCases(item)
  \/ \E item \in Items : RemoveRecentCase(item)
  \/ \E item \in Items : ClearRecentCases(item)
  \/ Terminate

Spec == Init /\ [][Next]_vars

SpecStored == InitStored /\ [][Next]_vars

\* The command is launched, reads the content and is left or closed: the
\* runs in which the user picks no action of the list.
NextContent ==
  \/ \E ctx \in LaunchContexts : Command(ctx)
  \/ LoadEffect
  \/ SavePinnedEffect
  \/ SaveRecentEffect
  \/ ContentEffect
  \/ ContentResolved
  \/ Rerender
  \/ Settle
  \/ Terminate

SpecContent == InitContent /\ [][NextContent]_vars

----------------------------------------------------------------------------
(* Properties *)

\* A step in which the handler of a user action runs, and the action it is.
Handles(ops) == pc = "idle" /\ pc' = "commit" /\ last'.op \in ops

UseOps == {"copy", "paste"}

\* The list an entry of the cache holds, an absent or empty entry holding none.
StoredList(entry) == IF Falsy(entry) THEN <<>> ELSE JSONparse(entry.text).value

WellFormed(entry) == Falsy(entry) \/ JSONparse(entry.text).ok

\* list without its elements equal to id, the others in their order.
RECURSIVE Without(_, _)
Without(list, id) ==
  IF list = <<>> THEN <<>>
  ELSE IF Head(list) = id THEN Without(Tail(list), id)
  ELSE <<Head(list)>> \o Without(Tail(list), id)

\* C1: the recent list, in memory, queued for a render and stored, has at
\* most 4 elements and holds no identifier twice.
RecentBounded ==
  /\ Len(recent) <= 4 /\ NoDuplicates(recent)
  /\ Len(nextRecent.val) <= 4 /\ NoDuplicates(nextRecent.val)
  /\ WellFormed(cache["recent"])
  /\ Len(StoredList(cache["recent"])) <= 4
  /\ NoDuplicates(StoredList(cache["recent"]))

\* A use of an identifier that is not in a full recent list: one is evicted.
RecentBoundedWitness ==
  /\ last.op \in UseOps
  /\ ~last.pinned
  /\ ~last.recent
  /\ Len(StoredList(cache["recent"])) = 4
  /\ Len(recent) = 4
  /\ recent[1] = last.case

\* C2: no identifier is in both the pinned and the recent list.
PinnedExcludesRecent == Range(pinned) \cap Range(recent) = {}

\* An identifier of the recent list was pinned: it moved to the pinned list.
PinnedExcludesRecentWitness ==
  /\ last.op = "pin"
  /\ last.recent
  /\ Includes(StoredList(cache["recent"]), last.case)
  /\ Includes(pinned, last.case)
  /\ recent # <<>>

\* C3: a use of a non-pinned identifier id on the recent list L gives id,
\* then the elements of L other than id in their order, cut to 4 elements;
\* so uses of 1, 2, 3, 4 from the empty list give <<4, 3, 2, 1>>, a use of 1
\* then <<1, 4, 3, 2>>, and a use of 5 then <<5, 1, 4, 3>>.
UseMovesToFront ==
  [][Handles(UseOps) /\ ~last'.pinned =>
       LET id == last'.case
           others == Without(recent, id)
       IN  /\ recent'[1] = id
           /\ Len(recent') = Min(4, 1 + Len(others))
           /\ \A i \in 2..Len(recent') : recent'[i] = others[i - 1]
           /\ (recent = <<>> /\ id = 1 => recent' = <<1>>)
           /\ (recent = <<1>> /\ id = 2 => recent' = <<2, 1>>)
           /\ (recent = <<2, 1>> /\ id = 3 => recent' = <<3, 2, 1>>)
           /\ (recent = <<3, 2, 1>> /\ id = 4 => recent' = <<4, 3, 2, 1>>)
           /\ (recent = <<4, 3, 2, 1>> /\ id = 1 => recent' = <<1, 4, 3, 2>>)
           /\ (recent = <<1, 4, 3, 2>> /\ id = 5 => recent' = <<5, 1, 4, 3>>)]_vars

\* The last use of the scenario: 5 on <<1, 4, 3, 2>>, which evicts 2.
UseMovesToFrontWitness ==
  /\ last.op \in UseOps
  /\ ~last.pinned
  /\ last.case = 5
  /\ pinned = <<>>
  /\ StoredList(cache["recent"]) = <<1, 4, 3, 2>>
  /\ recent = <<5, 1, 4, 3>>

\* C4: a use of an identifier shown as pinned changes neither list, and
\* schedules no write.
UsePinnedIsNoOp ==
  [][Handles(UseOps) /\ last'.pinned =>
       /\ recent' = recent
       /\ pinned' = pinned
       /\ effects' = <<>>
       /\ cache' = cache]_vars

\* A pinned identifier was used while the recent list held others.
UsePinnedIsNoOpWitness ==
  /\ last.op \in UseOps
  /\ last.pinned
  /\ Includes(pinned, last.case)
  /\ Len(recent) >= 2

\* C5: Pin on an identifier of the recent list takes it out of the recent
\* list and puts it first in the pinned list; the others keep their order.
PinMovesRecentToPinned ==
  [][Handles({"pin"}) /\ Includes(recent, last'.case) =>
       /\ ~Includes(recent', last'.case)
       /\ recent' = Without(recent, last'.case)
       /\ pinned' # <<>>
       /\ pinned'[1] = last'.case
       /\ Tail(pinned') = pinned]_vars

\* An identifier in the middle of the recent list was pinned, others being
\* pinned already.
PinMovesRecentToPinnedWitness ==
  /\ last.op = "pin"
  /\ Len(StoredList(cache["recent"])) >= 3
  /\ StoredList(cache["recent"])[2] = last.case
  /\ Len(pinned) >= 2
  /\ pinned[1] = last.case
  /\ Len(recent) >= 2

\* C6: the pinned list holds no identifier twice.
PinnedNoDuplicates ==
  /\ NoDuplicates(pinned)
  /\ NoDuplicates(nextPinned.val)
  /\ WellFormed(cache["pinned"])
  /\ NoDuplicates(StoredList(cache["pinned"]))

\* Pin was taken on an item of All Cases with three identifiers pinned.
PinnedNoDuplicatesWitness ==
  /\ last.op = "pin"
  /\ ~last.recent
  /\ Len(pinned) = 4

\* C7: pin(id) with id already in the pinned list is a no-op: a Pin step on
\* an identifier of the pinned list leaves the pinned list as it is.
PinIdempotent ==
  [][Handles({"pin"}) /\ Includes(pinned, last'.case) => pinned' = pinned]_vars

\* The effects are flushed and no render is pending: the next thing the
\* command does is to handle a user action, or to close.
Settled ==
  \/ pc = "idle"
  \/ pc \in {"commit", "flush"} /\ effects = <<>> /\ ~nextPinned.set /\ ~nextRecent.set

\* C8: when the effects of a user action are flushed and no render is
\* pending, that is before the next user action is handled, both keys are
\* stored and decode to the lists in memory.
WrittenThrough ==
  Settled =>
    /\ WellFormed(cache["pinned"])
    /\ WellFormed(cache["recent"])
    /\ cache["pinned"].present
    /\ cache["recent"].present
    /\ StoredList(cache["pinned"]) = pinned
    /\ StoredList(cache["recent"]) = recent

\* After user actions of this run, both lists hold identifiers and are stored.
WrittenThroughWitness ==
  /\ pc = "idle"
  /\ ~loaded.run
  /\ Len(pinned) >= 2
  /\ Len(recent) >= 2
  /\ StoredList(cache["pinned"]) = pinned
  /\ StoredList(cache["recent"]) = recent

\* C9: once startup has completed, the lists in memory are the ones that
\* were stored when the command started, and they are still stored.
StartupLoadsStored ==
  pc = "idle" /\ loaded.run =>
    /\ pinned = StoredList(loaded.pinned)
    /\ recent = StoredList(loaded.recent)
    /\ StoredList(cache["pinned"]) = StoredList(loaded.pinned)
    /\ StoredList(cache["recent"]) = StoredList(loaded.recent)

\* A run that started with both lists stored has started.
StartupLoadsStoredWitness ==
  /\ pc = "idle"
  /\ loaded.run
  /\ Len(StoredList(loaded.pinned)) >= 2
  /\ Len(StoredList(loaded.recent)) >= 2
  /\ pinned = StoredList(loaded.pinned)
  /\ recent = StoredList(loaded.recent)

\* C10: loading a malformed stored value raises no exception, gives the
\* empty list for its key, and the list of the other key is loaded.
MalformedLoadsEmpty ==
  /\ pc # "crashed"
  /\ pc = "idle" /\ loaded.run =>
       /\ pinned = (IF WellFormed(loaded.pinned) THEN StoredList(loaded.pinned) ELSE <<>>)
       /\ recent = (IF WellFormed(loaded.recent) THEN StoredList(loaded.recent) ELSE <<>>)

----------------------------------------------------------------------------
(* The launch with a case in the launch context *)

\* C11: a run that was launched with a case in its launch context does not
\* touch the lists: it calls neither cache.get nor cache.set, holds no list
\* state and schedules no effect, and the cache is the one the run found.
LaunchLeavesLists ==
  launch # 0 =>
    /\ touched = {}
    /\ cache["pinned"] = loaded.pinned
    /\ cache["recent"] = loaded.recent
    /\ pinned = <<>> /\ recent = <<>>
    /\ effects = <<>> /\ ~nextPinned.set /\ ~nextRecent.set

\* A conversion from the launch context, of a case that is neither pinned
\* nor recent, while both stored lists hold identifiers.
LaunchLeavesListsWitness ==
  /\ launch # 0
  /\ last.op = "launch"
  /\ out.kind = "copy"
  /\ StoredList(cache["pinned"]) # <<>>
  /\ StoredList(cache["recent"]) # <<>>
  /\ ~Includes(StoredList(cache["pinned"]), launch)
  /\ ~Includes(StoredList(cache["recent"]), launch)

----------------------------------------------------------------------------
(* The content *)

\* The content effect of this run has run and its promise is settled.
ContentRead ==
  /\ pc \in {"commit", "flush", "idle"}
  /\ ~reading
  /\ ~Includes(effects, "content")

\* C12: when neither the clipboard nor the selection holds text, the run
\* shows the failure notification once the content was asked for, in the
\* list and after a launch with a case in the launch context alike; the
\* latter copies nothing and announces no conversion.
NoTextNotified ==
  readContent(env) = NoText =>
    /\ (ContentRead => toast)
    /\ (last.op = "launch" => (toast /\ out.kind # "copy"))

----------------------------------------------------------------------------
(* The pinned list under the other actions *)

RecencyOps == UseOps \cup {"removeRecent", "clearRecent"}

InRun == {"commit", "flush", "idle"}

UnpinRemovesOnlyIt ==
  [][ /\ Handles({"removePinned"}) =>
           /\ pinned' = Without(pinned, last'.case)
           /\ Len(pinned') = Len(pinned) - 1
           /\ recent' = recent
           /\ ~Includes(recent', last'.case)
           /\ ~Includes(effects', "saveRecent")
      /\ \A id \in Cases :
           ~Includes(pinned, id) => Unpinned(id, pinned) = pinned
    ]_vars

\* Remove Pinned of one of three or more pinned identifiers, while the
\* recent list holds identifiers.
UnpinRemovesOnlyItWitness ==
  /\ last.op = "removePinned"
  /\ pc = "commit"
  /\ Len(pinned) >= 2
  /\ recent # <<>>

----------------------------------------------------------------------------
(* Save and load *)

\* A step in which the effect runs.
Runs(effect) ==
  /\ pc \in {"commit", "flush"} /\ effects # <<>> /\ Head(effects) = effect
  /\ pc' = "flush" /\ effects' = Tail(effects)

\* C15: what getPinnedCases reads after setPinnedCases(pinned) is the list
\* `pinned`, and the write leaves what getRecentCases reads as it was; the
\* same holds for the recent list and setRecentCases.
SaveLoadRoundTrip ==
  [][ /\ Runs("savePinned") =>
           /\ getPinnedCases' = [ok |-> TRUE, value |-> pinned]
           /\ getRecentCases' = getRecentCases
      /\ Runs("saveRecent") =>
           /\ getRecentCases' = [ok |-> TRUE, value |-> recent]
           /\ getPinnedCases' = getPinnedCases
    ]_vars

\* A pinned list of three or more identifiers has just been saved, next to
\* a stored recent list that holds identifiers.
SaveLoadRoundTripWitness ==
  /\ pc = "flush"
  /\ "set" \in touched
  /\ Len(pinned) >= 3
  /\ getPinnedCases.value = pinned
  /\ Len(getRecentCases.value) >= 2
  /\ effects = <<>>
  /\ ~nextRecent.set

----------------------------------------------------------------------------
(* The conversion *)

\* The positions of the line breaks of a text.
Breaks(text) == {i \in 1..Len(text) : text[i] = Newline}

LineCount(text) == Cardinality(Breaks(text)) + 1

\* The k-th line of a text: its characters after k - 1 line breaks and
\* before the k-th.
Line(text, k) ==
  LET at == SelectSeq([i \in 1..Len(text) |-> i],
                      LAMBDA i : /\ text[i] # Newline
                                 /\ Cardinality({j \in Breaks(text) : j < i}) = k - 1)
  IN  [n \in 1..Len(at) |-> text[at[n]]]

\* output is input with the function of the case applied to each line.
IsLinewise(output, input, case) ==
  /\ LineCount(output) = LineCount(input)
  /\ \A k \in 1..LineCount(input) :
       Line(output, k) = functions(case, Line(input, k))

\* C16: the text that the program hands over for a case is the content with
\* the function of the case applied to each of its lines: the text of every
\* item of the list, the text Copy and Paste hand over, and the text that a
\* launch with a case in the launch context copies.
ConvertedLinewise ==
  /\ pc = "idle" =>
       \A item \in Items : IsLinewise(Modified(item.case), clipboard, item.case)
  /\ last.op \in UseOps => IsLinewise(out.text, clipboard, last.case)
  /\ (last.op = "launch" /\ out.kind = "copy") =>
       IsLinewise(out.text, readContent(env).text, last.case)

----------------------------------------------------------------------------
(* The store during startup *)

\* C17: from the call of Command until the first user action, the lists
\* that the cache holds are the lists it held when the command was
\* launched.
StartupKeepsStore ==
  loaded.run =>
    /\ StoredList(cache["pinned"]) = StoredList(loaded.pinned)
    /\ StoredList(cache["recent"]) = StoredList(loaded.recent)

----------------------------------------------------------------------------
(* The sections of the list *)

\* C18: every identifier is shown by at most one item of the list, and an
\* identifier whose preference is true by exactly one: in the Pinned section
\* if it is pinned, else in the Recent section if it is recent, else in All
\* Cases; so Pin Case is offered on no item whose identifier is pinned.
DisplayedOnce ==
  LET items == Items
  IN  /\ NoDuplicates(pinned) /\ NoDuplicates(recent)
      /\ \A i1, i2 \in items : i1.case = i2.case => i1 = i2
      /\ \A c \in enabled :
           [case |-> c,
            pinned |-> Includes(pinned, c),
            recent |-> ~Includes(pinned, c) /\ Includes(recent, c)] \in items
      /\ \A item \in items : PinOffered(item) => ~Includes(pinned, item.case)

\* The list shows all three sections, one identifier is pinned though its
\* preference is false, and so shown in the Pinned section only.
DisplayedOnceWitness ==
  /\ pc = "idle"
  /\ pinned # <<>>
  /\ recent # <<>>
  /\ AllCasesSection # {}
  /\ \E c \in Cases \ enabled : Includes(pinned, c)

----------------------------------------------------------------------------
(* The source of the content *)

\* C19: readContent gives the text of the preferred source if it is not
\* empty, else the text of the other source if that is not empty, and
\* throws NoTextError exactly if both are empty, a selection that could not
\* be read being an empty one; and the list that has read the content
\* holds that text, or shows the failure toast.
ContentIsPreferred ==
  LET selection == IF env.selected.ok THEN env.selected.text ELSE <<>>
      first == IF env.source = "clipboard" THEN env.clipboard ELSE selection
      second == IF env.source = "clipboard" THEN selection ELSE env.clipboard
      result == readContent(env)
  IN  /\ first # <<>> => result = [ok |-> TRUE, text |-> first]
      /\ (first = <<>> /\ second # <<>>) => result = [ok |-> TRUE, text |-> second]
      /\ ~result.ok <=> (first = <<>> /\ second = <<>>)
      /\ ContentRead =>
           IF result.ok THEN clipboard = result.text /\ ~toast
           ELSE clipboard = <<>> /\ toast

\* The selection is preferred but could not be read: the list has read the
\* text of the clipboard.
ContentIsPreferredWitness ==
  /\ env.source = "selected"
  /\ ~env.selected.ok
  /\ env.clipboard # <<>>
  /\ ContentRead
  /\ pc = "idle"
  /\ clipboard = env.clipboard

====
